---- MODULE Spec2Model ----
(***************************************************************************)
(* napari/plugins/__init__.py: the PluginManager call order, the three     *)
(* registries filled by the hook result callbacks (dock_widgets,           *)
(* function_widgets, _sample_data), get_plugin_widget, the discovery       *)
(* triggers and available_samples.                                         *)
(*                                                                         *)
(* A call is three steps: a client invokes an operation with its arguments *)
(* (pc "idle" -> "called"), the operation runs as one action ("called" ->  *)
(* "returned", leaving its exception, warnings and return value in         *)
(* `result`), and the client takes the result ("returned" -> "idle").      *)
(* `before` is a history variable: the module globals at the invocation.   *)
(***************************************************************************)
EXTENDS Integers, Sequences, FiniteSets, TLC

VARIABLES
    hooks,              \* plugin_manager.hooks: spec name -> get_hookimpls()
    call_history,       \* per historic spec: the subscribed result callbacks
    dock_widgets,       \* plugin name -> {widget name -> (callable, kwargs)}
    function_widgets,   \* plugin name -> {function name -> function}
    _sample_data,       \* plugin name -> {sample name -> SampleDict}
    driver,             \* the client driving this run
    pc,                 \* "idle", "called" or "returned"
    call,               \* the operation invoked and its arguments
    result,             \* what the operation raised, warned and returned
    before,             \* the module globals when the operation was invoked
    fresh               \* hooks of the fresh manager of the last round trip

vars == <<hooks, call_history, dock_widgets, function_widgets, _sample_data,
          driver, pc, call, result, before, fresh>>

----------------------------------------------------------------------------
(* Bounds *)

\* most items in a list returned by a hook implementation
MaxItems == 2
\* most entries of one spec's list in a call-order record
MaxRecord == 2
\* most calls of one discovery function
MaxDiscover == 2

----------------------------------------------------------------------------
(* Python values.  Every value is a record tagged with its type `t`; a str *)
(* is a sequence of characters, a dict a sequence of [k, v] items in        *)
(* insertion order.                                                        *)

PyNone == [t |-> "NoneType"]
PyStr(s) == [t |-> "str", s |-> s]
PyInt(n) == [t |-> "int", n |-> n]
PyPath(s) == [t |-> "Path", s |-> s]
PyTuple(items) == [t |-> "tuple", items |-> items]
PyList(items) == [t |-> "list", items |-> items]
PyDict(d) == [t |-> "dict", d |-> d]
\* a class: callable, with a __name__, not a FunctionType
PyClass(name) == [t |-> "type", name |-> name]
\* a def or lambda: a FunctionType; id tells apart functions of one __name__
PyFunction(name, id) == [t |-> "function", name |-> name, id |-> id]
\* a functools.partial object: callable, without a __name__
PyPartial == [t |-> "partial"]

callable(v) == v.t \in {"type", "function", "partial"}
HasName(v) == v.t \in {"type", "function"}
\* bool(v) of the values the code tests for truth
Truthy(v) ==
    CASE v.t = "NoneType" -> FALSE
      [] v.t = "str" -> v.s # <<>>
      [] v.t = "dict" -> v.d # <<>>
      [] OTHER -> TRUE

\* str(v): a str is itself, an int its decimal digits (one digit suffices)
str(v) ==
    CASE v.t = "str" -> v.s
      [] v.t = "int" -> <<ToString(v.n)>>

(* dict operations on the sequence of items *)
DictKeyList(d) == [i \in 1..Len(d) |-> d[i].k]
DictHas(d, k) == \E i \in 1..Len(d) : d[i].k = k
DictGet(d, k) == d[CHOOSE i \in 1..Len(d) : d[i].k = k].v
\* d.get(k, default)
DictGetOr(d, k, default) == IF DictHas(d, k) THEN DictGet(d, k) ELSE default
\* d[k] = v: an existing key keeps its position, a new key goes last
DictSet(d, k, v) ==
    IF DictHas(d, k)
    THEN [i \in 1..Len(d) |-> IF d[i].k = k THEN [k |-> k, v |-> v] ELSE d[i]]
    ELSE Append(d, [k |-> k, v |-> v])
RECURSIVE DictUpdate(_, _)
\* d.update(e)
DictUpdate(d, e) ==
    IF e = <<>> THEN d
    ELSE DictUpdate(DictSet(d, Head(e).k, Head(e).v), Tail(e))

(* the outcome of an operation *)
\* `calls` lists the result-callback invocations a dispatch made
NoResult == [exc |-> "none", warnings |-> <<>>, ret |-> PyNone, calls |-> <<>>]
Warn(res, w) == [res EXCEPT !.warnings = Append(@, w)]
Raise(res, e) == [res EXCEPT !.exc = e]

----------------------------------------------------------------------------
(* Names *)

Plugins == {"pluginA", "pluginB"}

Upper == {"B"}
Lower == {"a"}

RECURSIVE camel_to_spaces(_)
\* a space goes before every capital that follows a small letter
camel_to_spaces(s) ==
    IF Len(s) < 2 THEN s
    ELSE LET front == SubSeq(s, 1, Len(s) - 1)
             last == s[Len(s)]
         IN IF last \in Upper /\ s[Len(s) - 1] \in Lower
            THEN camel_to_spaces(front) \o <<" ", last>>
            ELSE camel_to_spaces(front) \o <<last>>

\* s.replace('_', ' ')
replace_underscores(s) == [i \in 1..Len(s) |-> IF s[i] = "_" THEN " " ELSE s[i]]

----------------------------------------------------------------------------
(* register_dock_widget *)

\* the registries and the outcome so far, threaded through a callback's loop
LoopState(reg) == [reg |-> reg, res |-> NoResult]

\* a plugin's first widget makes its dict; a name it already has is
\* overwritten with a warning
dock_store_silently(name, widget, plugin_name, st) ==
    LET reg1 == IF DictHas(st.reg, plugin_name) THEN st.reg
                ELSE DictSet(st.reg, plugin_name, <<>>)
    IN [reg |-> DictSet(reg1, plugin_name,
                        DictSet(DictGet(reg1, plugin_name), name, widget)),
        res |-> st.res]

dock_store(name, widget, plugin_name, st) ==
    LET known == DictHas(st.reg, plugin_name)
        reg1 == IF known THEN st.reg ELSE DictSet(st.reg, plugin_name, <<>>)
        res1 == IF known /\ DictHas(DictGet(st.reg, plugin_name), name)
                THEN Warn(st.res, [kind |-> "overwritten", plugin |-> plugin_name,
                                   name |-> name])
                ELSE st.res
    IN [reg |-> DictSet(reg1, plugin_name,
                        DictSet(DictGet(reg1, plugin_name), name, widget)),
        res |-> res1]

\* one turn of `for arg in args`
dock_item(arg, plugin_name, st) ==
    IF arg.t = "tuple" /\ arg.items = <<>>
    THEN [st EXCEPT !.res = Warn(@, [kind |-> "invalid tuple", plugin |-> plugin_name])]
    ELSE
    LET _cls == IF arg.t = "tuple" THEN arg.items[1] ELSE arg
        kwargs == IF arg.t = "tuple" /\ Len(arg.items) > 1
                  THEN arg.items[2] ELSE PyDict(<<>>)
    IN
    IF ~callable(_cls)
    THEN [st EXCEPT !.res = Warn(@, [kind |-> "non-callable", plugin |-> plugin_name])]
    ELSE IF kwargs.t # "dict"
    THEN \* the warning's class_name=_cls.__name__ is evaluated first
         IF HasName(_cls)
         THEN [st EXCEPT !.res = Warn(@, [kind |-> "invalid kwargs", plugin |-> plugin_name])]
         ELSE [st EXCEPT !.res = Raise(@, "AttributeError")]
    ELSE
    LET explicit == str(DictGetOr(kwargs.d, "name", PyStr(<<>>)))
    IN
    IF explicit = <<>> /\ ~HasName(_cls)
    THEN [st EXCEPT !.res = Raise(@, "AttributeError")]
    ELSE
    dock_store(IF explicit # <<>> THEN explicit ELSE camel_to_spaces(_cls.name),
               PyTuple(<<_cls, kwargs>>), plugin_name, st)

RECURSIVE dock_loop(_, _, _)
dock_loop(items, plugin_name, st) ==
    IF items = <<>> \/ st.res.exc # "none" THEN st
    ELSE dock_loop(Tail(items), plugin_name, dock_item(Head(items), plugin_name, st))

\* args if isinstance(args, list) else [args]
AsList(args) == IF args.t = "list" THEN args.items ELSE <<args>>

\* as register_sample_data does, the plugin's dict is made before the loop
register_dock_widget_eager(args, plugin_name, reg) ==
    dock_loop(AsList(args), plugin_name,
              LoopState(IF DictHas(reg, plugin_name) THEN reg
                        ELSE DictSet(reg, plugin_name, <<>>)))

register_dock_widget(args, plugin_name, reg) ==
    dock_loop(AsList(args), plugin_name, LoopState(reg))

----------------------------------------------------------------------------
(* get_plugin_widget *)

\* without the check for several widgets
get_plugin_widget_first(plugin_name, widget_name, reg) ==
    LET plg_wdgs == DictGetOr(reg, plugin_name, <<>>)
    IN
    IF plg_wdgs = <<>> THEN Raise(NoResult, "KeyError")
    ELSE IF ~Truthy(widget_name)
    THEN [NoResult EXCEPT !.ret = DictGet(plg_wdgs, DictKeyList(plg_wdgs)[1])]
    ELSE IF ~DictHas(plg_wdgs, widget_name.s) THEN Raise(NoResult, "KeyError")
    ELSE [NoResult EXCEPT !.ret = DictGet(plg_wdgs, widget_name.s)]

get_plugin_widget(plugin_name, widget_name, reg) ==
    \* dock_widgets.get(plugin_name) is None or a dict; both None and {} are falsy
    LET plg_wdgs == DictGetOr(reg, plugin_name, <<>>)
    IN
    IF plg_wdgs = <<>> THEN Raise(NoResult, "KeyError")
    ELSE IF ~Truthy(widget_name)
    THEN IF Len(plg_wdgs) > 1 THEN Raise(NoResult, "ValueError")
         ELSE [NoResult EXCEPT !.ret = DictGet(plg_wdgs, DictKeyList(plg_wdgs)[1])]
    ELSE IF ~DictHas(plg_wdgs, widget_name.s) THEN Raise(NoResult, "KeyError")
    ELSE [NoResult EXCEPT !.ret = DictGet(plg_wdgs, widget_name.s)]

----------------------------------------------------------------------------
(* register_function_widget *)

func_store(name, func, plugin_name, st) ==
    LET known == DictHas(st.reg, plugin_name)
        reg1 == IF known THEN st.reg ELSE DictSet(st.reg, plugin_name, <<>>)
        res1 == IF known /\ DictHas(DictGet(st.reg, plugin_name), name)
                THEN Warn(st.res, [kind |-> "overwritten", plugin |-> plugin_name,
                                   name |-> name])
                ELSE st.res
    IN [reg |-> DictSet(reg1, plugin_name,
                        DictSet(DictGet(reg1, plugin_name), name, func)),
        res |-> res1]

\* callable(func) for isinstance(func, FunctionType)
func_item_any_callable(func, plugin_name, st) ==
    IF ~callable(func)
    THEN [st EXCEPT !.res = Warn(@, [kind |-> "non-function", plugin |-> plugin_name,
                                     hint |-> func.t = "tuple"])]
    ELSE
    func_store(replace_underscores(func.name), func, plugin_name, st)

\* one turn of `for func in args`
func_item(func, plugin_name, st) ==
    IF func.t # "function"
    THEN [st EXCEPT !.res = Warn(@, [kind |-> "non-function", plugin |-> plugin_name,
                                     hint |-> func.t = "tuple"])]
    ELSE
    func_store(replace_underscores(func.name), func, plugin_name, st)

RECURSIVE func_loop(_, _, _)
func_loop(items, plugin_name, st) ==
    IF items = <<>> \/ st.res.exc # "none" THEN st
    ELSE func_loop(Tail(items), plugin_name, func_item(Head(items), plugin_name, st))

register_function_widget(args, plugin_name, reg) ==
    func_loop(AsList(args), plugin_name, LoopState(reg))

----------------------------------------------------------------------------
(* register_sample_data *)

\* the shorthand's display_name left out
sample_item_anonymous(name, datum0, plugin_name, st) ==
    IF datum0.t = "dict" /\ ~(DictHas(datum0.d, "data") /\ DictHas(datum0.d, "display_name"))
    THEN [st EXCEPT !.res = Warn(@, [kind |-> "invalid dict", plugin |-> plugin_name,
                                     name |-> name])]
    ELSE
    LET datum == IF datum0.t = "dict" THEN datum0
                 ELSE PyDict(<<[k |-> "data", v |-> datum0],
                               [k |-> "display_name", v |-> PyStr(<<>>)]>>)
        d == DictGet(datum.d, "data")
    IN IF ~(callable(d) \/ d.t \in {"str", "Path"})
       THEN [st EXCEPT !.res = Warn(@, [kind |-> "invalid data", plugin |-> plugin_name,
                                        name |-> name])]
       ELSE [st EXCEPT !.data = DictSet(@, name, datum)]

\* one turn of `for name, datum in list(data.items())`; st.data is _data
sample_item(name, datum0, plugin_name, st) ==
    IF datum0.t = "dict" /\ ~(DictHas(datum0.d, "data") /\ DictHas(datum0.d, "display_name"))
    THEN [st EXCEPT !.res = Warn(@, [kind |-> "invalid dict", plugin |-> plugin_name,
                                     name |-> name])]
    ELSE
    LET datum == IF datum0.t = "dict" THEN datum0
                 ELSE PyDict(<<[k |-> "data", v |-> datum0],
                               [k |-> "display_name", v |-> PyStr(name)]>>)
        d == DictGet(datum.d, "data")
    IN IF ~(callable(d) \/ d.t \in {"str", "Path"})
       THEN [st EXCEPT !.res = Warn(@, [kind |-> "invalid data", plugin |-> plugin_name,
                                        name |-> name])]
       ELSE [st EXCEPT !.data = DictSet(@, name, datum)]

RECURSIVE sample_loop(_, _, _)
sample_loop(items, plugin_name, st) ==
    IF items = <<>> THEN st
    ELSE sample_loop(Tail(items), plugin_name,
                     sample_item(Head(items).k, Head(items).v, plugin_name, st))

register_sample_data(data, plugin_name, reg) ==
    IF data.t # "dict"
    THEN [reg |-> reg,
          res |-> Warn(NoResult, [kind |-> "non-dict", plugin |-> plugin_name])]
    ELSE
    LET st == sample_loop(data.d, plugin_name, [data |-> <<>>, res |-> NoResult])
        reg1 == IF DictHas(reg, plugin_name) THEN reg
                ELSE DictSet(reg, plugin_name, <<>>)
    IN [reg |-> DictSet(reg1, plugin_name,
                        DictUpdate(DictGet(reg1, plugin_name), st.data)),
        res |-> st.res]

----------------------------------------------------------------------------
(* available_samples *)

RECURSIVE Concat(_)
Concat(seqs) == IF seqs = <<>> THEN <<>> ELSE Head(seqs) \o Concat(Tail(seqs))

\* the plugins taken last first
available_samples_reversed(reg) ==
    Concat([i \in 1..Len(reg) |->
              [j \in 1..Len(reg[Len(reg) + 1 - i].v) |->
                  <<reg[Len(reg) + 1 - i].k, reg[Len(reg) + 1 - i].v[j].k>>]])

\* tuple((p, s) for p in _sample_data for s in _sample_data[p])
available_samples(reg) ==
    Concat([i \in 1..Len(reg) |->
              [j \in 1..Len(reg[i].v) |-> <<reg[i].k, reg[i].v[j].k>>]])

----------------------------------------------------------------------------
(* The plugin manager: hook specifications and hook callers.  hooks[spec]  *)
(* is get_hookimpls(): the implementations, the one dispatched first last. *)
(* An implementation is [plugin, enabled, returns], `returns` being what   *)
(* its function returns when called.                                       *)

FirstResultSpecs == {"napari_get_reader"}
HistoricSpecs == {"napari_provide_sample_data",
                  "napari_experimental_provide_dock_widget",
                  "napari_experimental_provide_function"}
HookSpecs == FirstResultSpecs \cup HistoricSpecs
\* self.hooks.items(): the specs in the order add_hookspecs met them
HookSpecList == <<"napari_get_reader", "napari_provide_sample_data",
                  "napari_experimental_provide_dock_widget",
                  "napari_experimental_provide_function">>

is_firstresult(spec_name) == spec_name \in FirstResultSpecs

Reverse(s) == [i \in 1..Len(s) |-> s[Len(s) + 1 - i]]
PluginNames(impls) == [i \in 1..Len(impls) |-> impls[i].plugin]
SeqRange(s) == {s[i] : i \in 1..Len(s)}
\* the implementations in the order they are dispatched
DispatchOrder(impls) == Reverse(impls)

get_hookimpls(hks, spec_name) == hks[spec_name]

\* the position of the plugin's implementation, 0 for the KeyError
get_plugin_implementation(impls, plugin_name) ==
    IF \E i \in 1..Len(impls) : impls[i].plugin = plugin_name
    THEN CHOOSE i \in 1..Len(impls) : impls[i].plugin = plugin_name
    ELSE 0

RECURSIVE SelectNamed(_, _)
\* the implementations of the plugins of `order`, in that order; names
\* without an implementation are skipped
SelectNamed(impls, order) ==
    IF order = <<>> THEN <<>>
    ELSE LET i == get_plugin_implementation(impls, Head(order))
         IN (IF i = 0 THEN <<>> ELSE <<impls[i]>>) \o SelectNamed(impls, Tail(order))

\* the named implementations are dispatched first, in the order given; the
\* others keep their relative order after them
bring_to_front(impls, order) ==
    SelectSeq(impls, LAMBDA imp : imp.plugin \notin SeqRange(order))
        \o Reverse(SelectNamed(impls, order))

\* a new implementation is dispatched first for a first-result spec and
\* last for a collect-all spec
add_implementation(impls, spec_name, imp) ==
    IF is_firstresult(spec_name) THEN Append(impls, imp) ELSE <<imp>> \o impls

remove_implementation(impls, plugin_name) ==
    SelectSeq(impls, LAMBDA imp : imp.plugin # plugin_name)

----------------------------------------------------------------------------
(* PluginManager.call_order *)

\* without reversed(): the implementation dispatched last comes first
call_order_unreversed(hks) ==
    [spec_name \in {sn \in DOMAIN hks :
                        is_firstresult(sn) /\ Len(get_hookimpls(hks, sn)) > 1} |->
        LET impls == get_hookimpls(hks, spec_name)
        IN [i \in 1..Len(impls) |->
              [plugin |-> impls[i].plugin, enabled |-> impls[i].enabled]]]

\* disabled implementations are left out of the lists
call_order_enabled_only(hks) ==
    [spec_name \in {sn \in DOMAIN hks :
                        is_firstresult(sn) /\ Len(get_hookimpls(hks, sn)) > 1} |->
        LET impls == SelectSeq(Reverse(get_hookimpls(hks, spec_name)),
                               LAMBDA imp : imp.enabled)
        IN [i \in 1..Len(impls) |->
              [plugin |-> impls[i].plugin, enabled |-> impls[i].enabled]]]

\* without the test for a first-result spec
call_order_any_policy(hks) ==
    [spec_name \in {sn \in DOMAIN hks : Len(get_hookimpls(hks, sn)) > 1} |->
        LET impls == Reverse(get_hookimpls(hks, spec_name))
        IN [i \in 1..Len(impls) |->
              [plugin |-> impls[i].plugin, enabled |-> impls[i].enabled]]]

call_order(hks) ==
    [spec_name \in {sn \in DOMAIN hks :
                        is_firstresult(sn) /\ Len(get_hookimpls(hks, sn)) > 1} |->
        LET impls == Reverse(get_hookimpls(hks, spec_name))
        IN [i \in 1..Len(impls) |->
              [plugin |-> impls[i].plugin, enabled |-> impls[i].enabled]]]

----------------------------------------------------------------------------
(* PluginManager.set_call_order *)

RECURSIVE set_order_loop_uncaught(_, _)
\* without the try: the KeyError of an uninstalled plugin leaves the loop
set_order_loop_uncaught(ps, st) ==
    IF ps = <<>> \/ st.exc # "none" THEN st
    ELSE
    LET p == Head(ps)
        imp == get_plugin_implementation(st.impls, p.plugin)
    IN set_order_loop_uncaught(Tail(ps),
         IF imp = 0 THEN [st EXCEPT !.exc = "KeyError"]
         ELSE [st EXCEPT !.impls[imp].enabled = p.enabled,
                         !.order = Append(@, p.plugin)])

RECURSIVE set_order_loop_prepending(_, _)
\* order.insert(0, ...) for order.append(...)
set_order_loop_prepending(ps, st) ==
    IF ps = <<>> \/ st.exc # "none" THEN st
    ELSE
    LET p == Head(ps)
        imp == get_plugin_implementation(st.impls, p.plugin)
    IN set_order_loop_prepending(Tail(ps),
         IF imp = 0 THEN st
         ELSE [st EXCEPT !.impls[imp].enabled = p.enabled,
                         !.order = <<p.plugin>> \o @])

RECURSIVE set_order_loop(_, _)
\* `for p in new_order.get(spec_name, [])`; st is [impls, order, exc]
set_order_loop(ps, st) ==
    IF ps = <<>> \/ st.exc # "none" THEN st
    ELSE
    LET p == Head(ps)
        imp == get_plugin_implementation(st.impls, p.plugin)
    IN set_order_loop(Tail(ps),
         IF imp = 0 THEN st   \* except KeyError: continue
         ELSE [st EXCEPT !.impls[imp].enabled = p.enabled,
                         !.order = Append(@, p.plugin)])

RECURSIVE set_call_order_loop_any_spec(_, _, _)
\* every spec takes the record's list, whatever spec it is listed under
set_call_order_loop_any_spec(spec_names, new_order, st) ==
    IF spec_names = <<>> \/ st.res.exc # "none" THEN st
    ELSE
    LET spec_name == Head(spec_names)
        turn == set_order_loop(IF DOMAIN new_order = {} THEN <<>>
                               ELSE new_order[CHOOSE sn \in DOMAIN new_order : TRUE],
                               [impls |-> get_hookimpls(st.hooks, spec_name),
                                order |-> <<>>, exc |-> "none"])
    IN set_call_order_loop_any_spec(Tail(spec_names), new_order,
         IF turn.exc # "none" THEN [st EXCEPT !.res = Raise(@, turn.exc)]
         ELSE IF turn.order # <<>>
         THEN [st EXCEPT !.hooks[spec_name] = bring_to_front(turn.impls, turn.order)]
         ELSE [st EXCEPT !.hooks[spec_name] = turn.impls])

RECURSIVE set_call_order_loop(_, _, _)
\* `for spec_name, hook_caller in self.hooks.items()`; st is [hooks, res]
set_call_order_loop(spec_names, new_order, st) ==
    IF spec_names = <<>> \/ st.res.exc # "none" THEN st
    ELSE
    LET spec_name == Head(spec_names)
        turn == set_order_loop(IF spec_name \in DOMAIN new_order
                               THEN new_order[spec_name] ELSE <<>>,
                               [impls |-> get_hookimpls(st.hooks, spec_name),
                                order |-> <<>>, exc |-> "none"])
    IN set_call_order_loop(Tail(spec_names), new_order,
         IF turn.exc # "none" THEN [st EXCEPT !.res = Raise(@, turn.exc)]
         ELSE IF turn.order # <<>>
         THEN [st EXCEPT !.hooks[spec_name] = bring_to_front(turn.impls, turn.order)]
         ELSE [st EXCEPT !.hooks[spec_name] = turn.impls])

set_call_order(new_order, hks) ==
    set_call_order_loop(HookSpecList, new_order, [hooks |-> hks, res |-> NoResult])

----------------------------------------------------------------------------
(* Historic dispatch.  g is the module's globals [hooks, call_history,     *)
(* dock, func, sample]; a dispatch threads st = [g, res] through the       *)
(* callbacks it invokes and stops at the first exception.                  *)

\* the callback each discovery function subscribes to its hook
result_callback(spec_name, raw, plugin_name, st) ==
    LET out == CASE spec_name = "napari_experimental_provide_dock_widget" ->
                      register_dock_widget(raw, plugin_name, st.g.dock)
                 [] spec_name = "napari_experimental_provide_function" ->
                      register_function_widget(raw, plugin_name, st.g.func)
                 [] spec_name = "napari_provide_sample_data" ->
                      register_sample_data(raw, plugin_name, st.g.sample)
        g1 == CASE spec_name = "napari_experimental_provide_dock_widget" ->
                      [st.g EXCEPT !.dock = out.reg]
                [] spec_name = "napari_experimental_provide_function" ->
                      [st.g EXCEPT !.func = out.reg]
                [] spec_name = "napari_provide_sample_data" ->
                      [st.g EXCEPT !.sample = out.reg]
    IN [g |-> g1,
        res |-> [st.res EXCEPT !.exc = out.res.exc,
                               !.warnings = @ \o out.res.warnings,
                               !.calls = Append(@, <<spec_name, plugin_name>>)]]

\* an implementation's result goes to the callback unless it is None
feed(spec_name, imp, st) ==
    IF st.res.exc # "none" \/ ~imp.enabled \/ imp.returns = PyNone THEN st
    ELSE result_callback(spec_name, imp.returns, imp.plugin, st)

RECURSIVE call_impls(_, _, _)
\* a normal call: every enabled implementation, in dispatch order
call_impls(impls, spec_name, st) ==
    IF impls = <<>> THEN st
    ELSE call_impls(Tail(impls), spec_name, feed(spec_name, Head(impls), st))

\* the first historic call of a spec subscribes the callback and calls the
\* implementations registered so far; a later one only subscribes again
call_historic(spec_name, st) ==
    IF st.res.exc # "none" THEN st
    ELSE
    LET st1 == [st EXCEPT !.g.call_history[spec_name] = @ + 1]
    IN IF st.g.call_history[spec_name] = 0
       THEN call_impls(DispatchOrder(get_hookimpls(st.g.hooks, spec_name)), spec_name, st1)
       ELSE st1

RECURSIVE apply_history(_, _, _, _)
\* a late implementation is called once for every standing subscriber
apply_history(n, spec_name, imp, st) ==
    IF n = 0 THEN st
    ELSE apply_history(n - 1, spec_name, imp, feed(spec_name, imp, st))

RECURSIVE register_loop(_, _, _, _)
\* plugin_manager.register: impls maps the specs the plugin implements to
\* what its implementation returns
register_loop(spec_names, plugin_name, impls, st) ==
    IF spec_names = <<>> THEN st
    ELSE
    LET spec_name == Head(spec_names)
        imp == [plugin |-> plugin_name, enabled |-> TRUE, returns |-> impls[spec_name]]
        st1 == [st EXCEPT !.g.hooks[spec_name] = add_implementation(@, spec_name, imp)]
    IN register_loop(Tail(spec_names), plugin_name, impls,
         IF spec_name \notin DOMAIN impls THEN st
         ELSE IF spec_name \in HistoricSpecs
         THEN apply_history(st.g.call_history[spec_name], spec_name, imp, st1)
         ELSE st1)

register(plugin_name, impls, g) ==
    register_loop(HookSpecList, plugin_name, impls, [g |-> g, res |-> NoResult])

unregister(plugin_name, g) ==
    [g |-> [g EXCEPT !.hooks = [sn \in DOMAIN @ |-> remove_implementation(@[sn], plugin_name)]],
     res |-> NoResult]

----------------------------------------------------------------------------
(* discover_dock_widgets, discover_sample_data *)

\* the two registries are emptied first, to be rebuilt by the dispatch
discover_dock_widgets_rebuilding(g) ==
    call_historic("napari_experimental_provide_function",
        call_historic("napari_experimental_provide_dock_widget",
                      [g |-> [g EXCEPT !.dock = <<>>, !.func = <<>>],
                       res |-> NoResult]))

discover_dock_widgets(g) ==
    call_historic("napari_experimental_provide_function",
        call_historic("napari_experimental_provide_dock_widget",
                      [g |-> g, res |-> NoResult]))

\* a plain call of the hook: nothing is subscribed for later plugins
discover_sample_data_once(g) ==
    call_impls(DispatchOrder(get_hookimpls(g.hooks, "napari_provide_sample_data")),
               "napari_provide_sample_data", [g |-> g, res |-> NoResult])

discover_sample_data(g) ==
    call_historic("napari_provide_sample_data", [g |-> g, res |-> NoResult])

----------------------------------------------------------------------------
(* What the clients pass in *)

SeqsUpTo(S, n) == UNION {[1..k -> S] : k \in 0..n}
Injective(s) == \A i, j \in 1..Len(s) : s[i] = s[j] => i = j

WidgetAB == PyClass(<<"a", "B">>)
NameAB == PyStr(<<"a", " ", "B">>)
NamedAB == PyDict(<<[k |-> "name", v |-> NameAB]>>)
Named7 == PyDict(<<[k |-> "name", v |-> PyInt(7)]>>)

\* the items a dock-widget hook returns, alone or in a list
DockItems ==
    { WidgetAB,
      PyTuple(<<WidgetAB>>),
      PyTuple(<<WidgetAB, NamedAB>>),
      PyTuple(<<WidgetAB, Named7>>),
      PyTuple(<<WidgetAB, PyDict(<<>>), PyInt(5)>>),
      PyTuple(<<>>),
      PyInt(5),
      PyTuple(<<PyInt(5), PyDict(<<>>)>>),
      PyTuple(<<WidgetAB, NameAB>>),
      PyPartial }
DockResults == DockItems \cup {PyList(l) : l \in SeqsUpTo(DockItems, MaxItems)}

WidgetNames == {PyNone, PyStr(<<>>), NameAB, PyStr(<<"7">>), PyStr(<<"a">>)}

FunctionAA1 == PyFunction(<<"a", "_", "a">>, 1)
FunctionAA2 == PyFunction(<<"a", "_", "a">>, 2)
FunctionB == PyFunction(<<"B">>, 3)
FunctionItems ==
    {FunctionAA1, FunctionAA2, FunctionB, WidgetAB, PyTuple(<<FunctionAA1, FunctionB>>)}
FunctionResults == FunctionItems \cup {PyList(l) : l \in SeqsUpTo(FunctionItems, MaxItems)}

SampleNames == {<<"f">>, <<"g">>}
FullSample == PyDict(<<[k |-> "data", v |-> PyStr(<<"u">>)],
                       [k |-> "display_name", v |-> PyStr(<<"F">>)]>>)
SampleData ==
    { FunctionB,                                   \* a callable
      PyPath(<<"u">>),                             \* a locator
      FullSample,
      PyDict(<<[k |-> "data", v |-> FunctionB]>>), \* no display_name
      PyInt(5) }
SampleResults ==
    {PyInt(5)} \cup
    {PyDict([i \in 1..Len(ns) |-> [k |-> ns[i], v |-> ds[i]]]) :
        <<ns, ds>> \in {nd \in SeqsUpTo(SampleNames, MaxItems) \X SeqsUpTo(SampleData, MaxItems) :
                            Len(nd[1]) = Len(nd[2]) /\ Injective(nd[1])}}

ManagerPlugins == Plugins \cup {"builtins"}
\* what a plugin registered by the settings client implements
SettingsImpls ==
    {[sn \in D |-> PyNone] : D \in {{"napari_get_reader"},
                                    {"napari_get_reader", "napari_provide_sample_data"},
                                    {"napari_provide_sample_data"}}}
CallOrderEntries == [plugin : ManagerPlugins, enabled : BOOLEAN]
\* a record with at most one spec, naming no plugin twice
CallOrderRecords ==
    {<<>>} \cup
    {[sn \in {spec_name} |-> l] :
        <<spec_name, l>> \in {"napari_get_reader", "napari_provide_sample_data"} \X
            {l \in SeqsUpTo(CallOrderEntries, MaxRecord) : Injective(PluginNames(l))}}

\* what a plugin registered by the discovery client implements
DiscoveryImpls ==
    {f \in UNION {[D -> {WidgetAB, PyInt(5), FunctionAA1,
                         PyDict(<<[k |-> <<"f">>, v |-> FunctionB]>>),
                         PyDict(<<[k |-> <<"g">>, v |-> PyInt(5)],
                                  [k |-> <<"f">>, v |-> PyPath(<<"u">>)]>>)}] :
                     D \in (SUBSET HistoricSpecs) \ {{}}} :
        \A sn \in DOMAIN f :
            CASE sn = "napari_provide_sample_data" -> f[sn].t = "dict"
              [] sn = "napari_experimental_provide_dock_widget" -> f[sn] \in {WidgetAB, PyInt(5)}
              [] sn = "napari_experimental_provide_function" -> f[sn] = FunctionAA1}

----------------------------------------------------------------------------
(* State *)

Globals == [hooks |-> hooks, call_history |-> call_history, dock |-> dock_widgets,
            func |-> function_widgets, sample |-> _sample_data]

NoCall == [op |-> "none", plugin |-> "", arg |-> PyNone]
NoBefore == [hooks |-> <<>>, call_history |-> <<>>, dock |-> <<>>, func |-> <<>>,
             sample |-> <<>>]
NoFresh == <<>>

\* the module's top level: the manager with its hook specs and the builtins
\* plugin, the three empty registries, then discover_sample_data()
ImportedGlobals ==
    discover_sample_data(
        register("builtins", [sn \in {"napari_get_reader"} |-> PyNone],
                 [hooks |-> [sn \in HookSpecs |-> <<>>],
                  call_history |-> [sn \in HistoricSpecs |-> 0],
                  dock |-> <<>>, func |-> <<>>, sample |-> <<>>]).g).g

Drivers == {"settings", "dock", "function", "sample", "discovery"}

InitFor(ds) ==
    /\ driver \in ds
    /\ hooks = ImportedGlobals.hooks
    /\ call_history = ImportedGlobals.call_history
    /\ dock_widgets = ImportedGlobals.dock
    /\ function_widgets = ImportedGlobals.func
    /\ _sample_data = ImportedGlobals.sample
    /\ pc = "idle"
    /\ call = NoCall
    /\ result = NoResult
    /\ before = NoBefore
    /\ fresh = NoFresh

Init == InitFor(Drivers)

\* a client invokes op
Invoke(op, plugin_name, arg) ==
    /\ pc = "idle"
    /\ pc' = "called"
    /\ call' = [op |-> op, plugin |-> plugin_name, arg |-> arg]
    /\ before' = Globals
    /\ UNCHANGED <<hooks, call_history, dock_widgets, function_widgets, _sample_data,
                   driver, result, fresh>>

Running(op) == pc = "called" /\ call.op = op
Returned(op) == pc = "returned" /\ call.op = op

\* the operation ran to its return or its exception
Finish(g, res) ==
    /\ hooks' = g.hooks
    /\ call_history' = g.call_history
    /\ dock_widgets' = g.dock
    /\ function_widgets' = g.func
    /\ _sample_data' = g.sample
    /\ result' = res
    /\ pc' = "returned"
    /\ UNCHANGED <<driver, call, before>>

Registered(hks) == UNION {SeqRange(PluginNames(hks[sn])) : sn \in DOMAIN hks}

----------------------------------------------------------------------------
(* Actions: the registries *)

CallRegisterDockWidget ==
    /\ pc = "idle"
    /\ driver = "dock"
    /\ \E plugin_name \in Plugins, args \in DockResults :
          Invoke("register_dock_widget", plugin_name, args)

RegisterDockWidget ==
    /\ Running("register_dock_widget")
    /\ LET out == register_dock_widget(call.arg, call.plugin, dock_widgets)
       IN Finish([Globals EXCEPT !.dock = out.reg], out.res)
    /\ UNCHANGED fresh

CallGetPluginWidget ==
    /\ pc = "idle"
    /\ driver = "dock"
    /\ \E plugin_name \in Plugins, widget_name \in WidgetNames :
          Invoke("get_plugin_widget", plugin_name, widget_name)

GetPluginWidget ==
    /\ Running("get_plugin_widget")
    /\ Finish(Globals, get_plugin_widget(call.plugin, call.arg, dock_widgets))
    /\ UNCHANGED fresh

CallRegisterFunctionWidget ==
    /\ pc = "idle"
    /\ driver = "function"
    /\ \E plugin_name \in Plugins, args \in FunctionResults :
          Invoke("register_function_widget", plugin_name, args)

RegisterFunctionWidget ==
    /\ Running("register_function_widget")
    /\ LET out == register_function_widget(call.arg, call.plugin, function_widgets)
       IN Finish([Globals EXCEPT !.func = out.reg], out.res)
    /\ UNCHANGED fresh

CallRegisterSampleData ==
    /\ pc = "idle"
    /\ driver = "sample"
    /\ \E plugin_name \in Plugins, data \in SampleResults :
          Invoke("register_sample_data", plugin_name, data)

RegisterSampleData ==
    /\ Running("register_sample_data")
    /\ LET out == register_sample_data(call.arg, call.plugin, _sample_data)
       IN Finish([Globals EXCEPT !.sample = out.reg], out.res)
    /\ UNCHANGED fresh

CallAvailableSamples ==
    /\ pc = "idle"
    /\ driver \in {"sample", "discovery"}
    /\ Invoke("available_samples", "", PyNone)

AvailableSamples ==
    /\ Running("available_samples")
    /\ Finish(Globals, [NoResult EXCEPT !.ret = PyTuple(available_samples(_sample_data))])
    /\ UNCHANGED fresh

----------------------------------------------------------------------------
(* Actions: the plugin manager *)

CallRegister ==
    /\ pc = "idle"
    /\ driver \in {"settings", "discovery"}
    /\ \E plugin_name \in Plugins \ Registered(hooks),
          impls \in IF driver = "settings" THEN SettingsImpls ELSE DiscoveryImpls :
          Invoke("register", plugin_name, impls)

Register ==
    /\ Running("register")
    /\ LET out == register(call.plugin, call.arg, Globals)
       IN Finish(out.g, out.res)
    /\ UNCHANGED fresh

CallUnregister ==
    /\ pc = "idle"
    /\ driver = "settings"
    /\ \E plugin_name \in Registered(hooks) : Invoke("unregister", plugin_name, PyNone)

Unregister ==
    /\ Running("unregister")
    /\ LET out == unregister(call.plugin, Globals)
       IN Finish(out.g, out.res)
    /\ UNCHANGED fresh

CallSetCallOrder ==
    /\ pc = "idle"
    /\ driver = "settings"
    /\ \E new_order \in CallOrderRecords : Invoke("set_call_order", "", new_order)

SetCallOrder ==
    /\ Running("set_call_order")
    /\ LET out == set_call_order(call.arg, hooks)
       IN Finish([Globals EXCEPT !.hooks = out.hooks], out.res)
    /\ UNCHANGED fresh

\* a fresh manager in which the plugins of hks were registered in the order
\* `names`, each implementing what it implements in hks
RECURSIVE FreshManager(_, _, _)
FreshManager(names, hks, g) ==
    IF names = <<>> THEN g
    ELSE LET p == Head(names)
             impls == [sn \in {x \in DOMAIN hks : p \in SeqRange(PluginNames(hks[x]))} |->
                          hks[sn][get_plugin_implementation(hks[sn], p)].returns]
         IN FreshManager(Tail(names), hks, register(p, impls, g).g)

Orderings(S) == {s \in [1..Cardinality(S) -> S] : Injective(s)}

\* the settings round trip: call_order() goes to set_call_order() of a fresh
\* manager with the same plugins, registered in the order call.arg
CallRoundTrip ==
    /\ pc = "idle"
    /\ driver = "settings"
    /\ \E names \in Orderings(Registered(hooks)) : Invoke("round_trip", "", names)

RoundTrip ==
    /\ Running("round_trip")
    /\ LET empty == [Globals EXCEPT !.hooks = [sn \in HookSpecs |-> <<>>],
                                    !.call_history = [sn \in HistoricSpecs |-> 0]]
           manager == FreshManager(call.arg, hooks, empty)
       IN fresh' = set_call_order(call_order(hooks), manager.hooks).hooks
    /\ Finish(Globals, [NoResult EXCEPT !.ret = call_order(hooks)])

----------------------------------------------------------------------------
(* Actions: discovery *)

CallDiscoverSampleData ==
    /\ pc = "idle"
    /\ driver = "discovery"
    /\ call_history["napari_provide_sample_data"] < MaxDiscover
    /\ Invoke("discover_sample_data", "", PyNone)

DiscoverSampleData ==
    /\ Running("discover_sample_data")
    /\ LET out == discover_sample_data(Globals)
       IN Finish(out.g, out.res)
    /\ UNCHANGED fresh

CallDiscoverDockWidgets ==
    /\ pc = "idle"
    /\ driver = "discovery"
    /\ call_history["napari_experimental_provide_dock_widget"] < MaxDiscover
    /\ Invoke("discover_dock_widgets", "", PyNone)

DiscoverDockWidgets ==
    /\ Running("discover_dock_widgets")
    /\ LET out == discover_dock_widgets(Globals)
       IN Finish(out.g, out.res)
    /\ UNCHANGED fresh

\* the client takes the result
Return ==
    /\ pc = "returned"
    /\ pc' = "idle"
    /\ call' = NoCall
    /\ result' = NoResult
    /\ before' = NoBefore
    /\ fresh' = NoFresh
    /\ UNCHANGED <<hooks, call_history, dock_widgets, function_widgets, _sample_data,
                   driver>>

----------------------------------------------------------------------------
(* Specifications.  The registries and the manager's hook callers are      *)
(* disjoint globals and no operation of one reads another's, so a run is   *)
(* driven by one client: the states of Spec are the union of the clients'. *)

NextDock ==
    \/ CallRegisterDockWidget
    \/ RegisterDockWidget
    \/ CallGetPluginWidget
    \/ GetPluginWidget
    \/ Return

NextFunction ==
    \/ CallRegisterFunctionWidget
    \/ RegisterFunctionWidget
    \/ Return

NextSample ==
    \/ CallRegisterSampleData
    \/ RegisterSampleData
    \/ CallAvailableSamples
    \/ AvailableSamples
    \/ Return

NextSettings ==
    \/ CallRegister
    \/ Register
    \/ CallUnregister
    \/ Unregister
    \/ CallSetCallOrder
    \/ SetCallOrder
    \/ CallRoundTrip
    \/ RoundTrip
    \/ Return

NextDiscovery ==
    \/ CallRegister
    \/ Register
    \/ CallDiscoverSampleData
    \/ DiscoverSampleData
    \/ CallDiscoverDockWidgets
    \/ DiscoverDockWidgets
    \/ CallAvailableSamples
    \/ AvailableSamples
    \/ Return

Next ==
    \/ CallRegisterDockWidget
    \/ RegisterDockWidget
    \/ CallGetPluginWidget
    \/ GetPluginWidget
    \/ CallRegisterFunctionWidget
    \/ RegisterFunctionWidget
    \/ CallRegisterSampleData
    \/ RegisterSampleData
    \/ CallAvailableSamples
    \/ AvailableSamples
    \/ CallRegister
    \/ Register
    \/ CallUnregister
    \/ Unregister
    \/ CallSetCallOrder
    \/ SetCallOrder
    \/ CallRoundTrip
    \/ RoundTrip
    \/ CallDiscoverSampleData
    \/ DiscoverSampleData
    \/ CallDiscoverDockWidgets
    \/ DiscoverDockWidgets
    \/ Return

Spec == Init /\ [][Next]_vars
SpecDock == InitFor({"dock"}) /\ [][NextDock]_vars
SpecFunction == InitFor({"function"}) /\ [][NextFunction]_vars
SpecSample == InitFor({"sample"}) /\ [][NextSample]_vars
SpecSettings == InitFor({"settings"}) /\ [][NextSettings]_vars
SpecDiscovery == InitFor({"discovery"}) /\ [][NextDiscovery]_vars

NextRegistries ==
    \/ CallRegisterDockWidget
    \/ RegisterDockWidget
    \/ CallGetPluginWidget
    \/ GetPluginWidget
    \/ CallRegisterFunctionWidget
    \/ RegisterFunctionWidget
    \/ CallRegisterSampleData
    \/ RegisterSampleData
    \/ CallAvailableSamples
    \/ AvailableSamples
    \/ Return

SpecRegistries == InitFor({"dock", "function", "sample"}) /\ [][NextRegistries]_vars

----------------------------------------------------------------------------
(* Properties *)

Contains(s, x) == \E i \in 1..Len(s) : s[i] = x
Items == AsList(call.arg)
PluginDict(reg, plugin_name) == DictGetOr(reg, plugin_name, <<>>)
Occurrences(d, k) == Cardinality({i \in 1..Len(d) : d[i].k = k})
ReaderImpls == hooks["napari_get_reader"]

(* C1: the call order exported by call_order() and imported by             *)
(* set_call_order() into a fresh manager with the same plugins gives, for  *)
(* every first-result spec with several implementations, the dispatch      *)
(* order and the enabled flags of the original manager.                    *)
C1_RoundTrip ==
    Returned("round_trip") =>
        \A spec_name \in DOMAIN call_order(hooks) :
            DispatchOrder(fresh[spec_name]) = DispatchOrder(hooks[spec_name])

\* three readers, one disabled, in another order than the fresh manager's
C1_Witness ==
    /\ Returned("round_trip")
    /\ Len(ReaderImpls) = 3
    /\ \E i \in 1..3 : ~ReaderImpls[i].enabled
    /\ PluginNames(ReaderImpls) # call.arg
    /\ PluginNames(ReaderImpls) # Reverse(call.arg)

(* C2: a record naming a plugin without an implementation for the spec     *)
(* raises nothing and adds or removes no implementation; the installed     *)
(* plugins it names are dispatched in the record's relative order with the *)
(* record's enabled flags.                                                 *)
RecordOf(spec_name) == IF spec_name \in DOMAIN call.arg THEN call.arg[spec_name] ELSE <<>>
InstalledEntries(spec_name) ==
    SelectSeq(RecordOf(spec_name),
              LAMBDA e : Contains(PluginNames(before.hooks[spec_name]), e.plugin))
NamesUninstalled(spec_name) ==
    Len(InstalledEntries(spec_name)) < Len(RecordOf(spec_name))

IsLocatorOrCallable(v) == callable(v) \/ v.t \in {"str", "Path"}
ValidSample(datum) ==
    IF datum.t = "dict"
    THEN /\ DictHas(datum.d, "data")
         /\ DictHas(datum.d, "display_name")
         /\ IsLocatorOrCallable(DictGet(datum.d, "data"))
    ELSE IsLocatorOrCallable(datum)
ProvidesSamples == "napari_provide_sample_data" \in DOMAIN call.arg
ProvidedSamples == call.arg["napari_provide_sample_data"].d

C3_LateRegistration ==
    (Returned("register") /\ ProvidesSamples) =>
        \A i \in 1..Len(ProvidedSamples) :
            ValidSample(ProvidedSamples[i].v) =>
                Contains(available_samples(_sample_data),
                         <<call.plugin, ProvidedSamples[i].k>>)

\* a second plugin's samples arrive after the first plugin's
C3_Witness ==
    /\ Returned("register")
    /\ ProvidesSamples
    /\ \E i \in 1..Len(ProvidedSamples) : ValidSample(ProvidedSamples[i].v)
    /\ before.sample # <<>>
    /\ ~DictHas(before.sample, call.plugin)
    /\ Len(available_samples(_sample_data)) > Len(available_samples(before.sample))

(* C4: when a plugin registers a dock widget, or a function widget, under  *)
(* a name it has already registered, in an earlier call or earlier in the  *)
(* same list, nothing is raised, an "overwritten" warning names the plugin *)
(* and the name, and the registry holds one entry under that name: the     *)
(* item registered last.                                                   *)
\* the dock-widget contract: a callable, or a tuple of a callable and,
\* optionally, an options dict
DockFactory(item) == IF item.t = "tuple" THEN item.items[1] ELSE item
DockOptions(item) ==
    IF item.t = "tuple" /\ Len(item.items) = 2 THEN item.items[2] ELSE PyDict(<<>>)
WellFormedDock(item) ==
    IF item.t = "tuple"
    THEN /\ Len(item.items) \in {1, 2}
         /\ callable(item.items[1])
         /\ Len(item.items) = 2 => item.items[2].t = "dict"
    ELSE callable(item)
ExplicitName(item) == str(DictGetOr(DockOptions(item).d, "name", PyStr(<<>>)))
Nameable(item) == ExplicitName(item) # <<>> \/ HasName(DockFactory(item))
DockName(item) ==
    IF ExplicitName(item) # <<>> THEN ExplicitName(item)
    ELSE camel_to_spaces(DockFactory(item).name)
DockWidget(item) == PyTuple(<<DockFactory(item), DockOptions(item)>>)
FunctionName(item) == replace_underscores(item.name)

\* names[i] and values[i] are what item i is registered as
SecondReplacesFirst(names, values, earlier, now) ==
    \A i \in 1..Len(names) :
        (DictHas(earlier, names[i]) \/ \E j \in 1..(i - 1) : names[j] = names[i]) =>
            /\ Contains(result.warnings, [kind |-> "overwritten", plugin |-> call.plugin,
                                          name |-> names[i]])
            /\ Occurrences(now, names[i]) = 1
            /\ (\A j \in (i + 1)..Len(names) : names[j] # names[i]) =>
                   DictGet(now, names[i]) = values[i]

C4_SecondReplacesFirst ==
    /\ (Returned("register_dock_widget")
            /\ \A i \in 1..Len(Items) : WellFormedDock(Items[i]) /\ Nameable(Items[i])) =>
          /\ result.exc = "none"
          /\ SecondReplacesFirst([i \in 1..Len(Items) |-> DockName(Items[i])],
                                 [i \in 1..Len(Items) |-> DockWidget(Items[i])],
                                 PluginDict(before.dock, call.plugin),
                                 PluginDict(dock_widgets, call.plugin))
    /\ (Returned("register_function_widget")
            /\ \A i \in 1..Len(Items) : Items[i].t = "function") =>
          /\ result.exc = "none"
          /\ SecondReplacesFirst([i \in 1..Len(Items) |-> FunctionName(Items[i])],
                                 Items,
                                 PluginDict(before.func, call.plugin),
                                 PluginDict(function_widgets, call.plugin))

\* a derived name meets the explicit name of an earlier call's widget
C4_Witness ==
    /\ Returned("register_dock_widget")
    /\ call.arg = WidgetAB
    /\ DictHas(PluginDict(before.dock, call.plugin), NameAB.s)
    /\ DictGet(PluginDict(before.dock, call.plugin), NameAB.s) = PyTuple(<<WidgetAB, NamedAB>>)
    /\ DictGet(PluginDict(dock_widgets, call.plugin), NameAB.s) = PyTuple(<<WidgetAB, PyDict(<<>>)>>)
    /\ result.warnings # <<>>

(* C5: a sample registered under a name the plugin already has replaces    *)
(* the entry, and a warning names the plugin and the overwritten sample,   *)
(* as the other two registries warn.                                       *)
NormalSample(name, datum) ==
    IF datum.t = "dict" THEN datum
    ELSE PyDict(<<[k |-> "data", v |-> datum], [k |-> "display_name", v |-> PyStr(name)]>>)
SampleEntries == IF call.arg.t = "dict" THEN call.arg.d ELSE <<>>
Reregistered(i) ==
    /\ ValidSample(SampleEntries[i].v)
    /\ DictHas(PluginDict(before.sample, call.plugin), SampleEntries[i].k)
Replaced(i) ==
    /\ Occurrences(PluginDict(_sample_data, call.plugin), SampleEntries[i].k) = 1
    /\ DictGet(PluginDict(_sample_data, call.plugin), SampleEntries[i].k) =
           NormalSample(SampleEntries[i].k, SampleEntries[i].v)

C5_OverwriteWarns ==
    Returned("register_sample_data") =>
        \A i \in 1..Len(SampleEntries) :
            Reregistered(i) =>
                /\ Replaced(i)
                /\ \E w \in 1..Len(result.warnings) :
                      /\ result.warnings[w].plugin = call.plugin
                      /\ result.warnings[w].name = SampleEntries[i].k

(* C6: when a plugin without dock widgets returns objects that are not     *)
(* callable, nothing is raised, each one is warned about and dropped, and  *)
(* the plugin does not become a key of dock_widgets.                       *)
NotCallableItem(item) ==
    IF item.t = "tuple" THEN item.items # <<>> /\ ~callable(item.items[1])
    ELSE ~callable(item)

C6_NonCallableDropped ==
    (Returned("register_dock_widget")
        /\ Items # <<>>
        /\ \A i \in 1..Len(Items) : NotCallableItem(Items[i])
        /\ ~DictHas(before.dock, call.plugin)) =>
            /\ result.exc = "none"
            /\ result.warnings =
                   [i \in 1..Len(Items) |-> [kind |-> "non-callable", plugin |-> call.plugin]]
            /\ dock_widgets = before.dock
            /\ ~DictHas(dock_widgets, call.plugin)

\* the other plugin has widgets, this one returned one non-callable object
C6_Witness ==
    /\ Returned("register_dock_widget")
    /\ call.arg = PyInt(5)
    /\ ~DictHas(dock_widgets, call.plugin)
    /\ dock_widgets # <<>>
    /\ Len(result.warnings) = 1

(* C7: get_plugin_widget without a widget name returns the only widget of  *)
(* a plugin that has one and raises ValueError for a plugin that has       *)
(* several.                                                                *)
C7_OnlyWidgetOrAmbiguous ==
    (Returned("get_plugin_widget") /\ call.arg = PyNone) =>
        LET plg_wdgs == PluginDict(before.dock, call.plugin)
        IN /\ Len(plg_wdgs) = 1 =>
                  /\ result.exc = "none"
                  /\ result.ret = plg_wdgs[1].v
           /\ Len(plg_wdgs) > 1 => result.exc = "ValueError"

C7_Witness ==
    /\ Returned("get_plugin_widget")
    /\ call.arg = PyNone
    /\ Len(PluginDict(dock_widgets, call.plugin)) = 2
    /\ result.exc = "ValueError"

(* C8: get_plugin_widget raises KeyError for a plugin without              *)
(* dock widgets and for a given name the plugin has not registered,        *)
(* returns the stored pair of a given registered name, and leaves          *)
(* dock_widgets as it was.                                                 *)
C8_NotFoundOrStored ==
    Returned("get_plugin_widget") =>
        LET plg_wdgs == PluginDict(before.dock, call.plugin)
        IN /\ plg_wdgs = <<>> => result.exc = "KeyError"
           /\ (call.arg # PyNone /\ ~DictHas(plg_wdgs, call.arg.s)) =>
                  result.exc = "KeyError"
           /\ (call.arg # PyNone /\ DictHas(plg_wdgs, call.arg.s)) =>
                  /\ result.exc = "none"
                  /\ result.ret = DictGet(plg_wdgs, call.arg.s)
           /\ dock_widgets = before.dock

(* C9: a register_sample_data call leaves the pairs available_samples()    *)
(* returned before in their order, puts the plugin's new samples after its *)
(* old ones in the order of the returned dict, and a plugin without a dict *)
(* yet after every other plugin; available_samples() changes nothing.      *)
NewNames ==
    LET valid == SelectSeq(SampleEntries, LAMBDA e : ValidSample(e.v))
    IN SelectSeq(DictKeyList(valid),
                 LAMBDA n : ~DictHas(PluginDict(before.sample, call.plugin), n))
PluginsAfter ==
    IF call.arg.t = "dict" /\ ~DictHas(before.sample, call.plugin)
    THEN Append(DictKeyList(before.sample), call.plugin)
    ELSE DictKeyList(before.sample)
NamesAfter(plugin_name) ==
    DictKeyList(PluginDict(before.sample, plugin_name))
        \o (IF plugin_name = call.plugin THEN NewNames ELSE <<>>)
SamplesAfter ==
    Concat([i \in 1..Len(PluginsAfter) |->
              [j \in 1..Len(NamesAfter(PluginsAfter[i])) |->
                  <<PluginsAfter[i], NamesAfter(PluginsAfter[i])[j]>>]])

C10_Shorthand ==
    Returned("register_sample_data") =>
        \A i \in 1..Len(SampleEntries) :
            LET name == SampleEntries[i].k
                value == SampleEntries[i].v
            IN (value.t # "dict" /\ IsLocatorOrCallable(value)) =>
                  /\ DictHas(PluginDict(_sample_data, call.plugin), name)
                  /\ LET entry == DictGet(PluginDict(_sample_data, call.plugin), name)
                     IN /\ entry.t = "dict"
                        /\ DictKeyList(entry.d) = <<"data", "display_name">>
                        /\ DictGet(entry.d, "data") = value
                        /\ DictGet(entry.d, "display_name") = PyStr(name)

\* a callable and a locator in one dict
C10_Witness ==
    /\ Returned("register_sample_data")
    /\ Len(SampleEntries) = 2
    /\ SampleEntries[1].v = FunctionB
    /\ SampleEntries[2].v = PyPath(<<"u">>)
    /\ Len(PluginDict(_sample_data, call.plugin)) = 2

(* C11: a call of discover_dock_widgets() or discover_sample_data() that   *)
(* is not the first one leaves dock_widgets, function_widgets and          *)
(* _sample_data as they were when it was invoked, whatever was registered  *)
(* before it.                                                              *)
Registries(g) == <<g.dock, g.func, g.sample>>
Rediscovery(op, spec_name) == Returned(op) /\ before.call_history[spec_name] > 0

C11_DiscoveryIdempotent ==
    /\ Rediscovery("discover_dock_widgets", "napari_experimental_provide_dock_widget") =>
          Registries(Globals) = Registries(before)
    /\ Rediscovery("discover_sample_data", "napari_provide_sample_data") =>
          Registries(Globals) = Registries(before)

\* the second discovery of dock widgets, two plugins providing widgets and
\* functions that the first discovery stored
C11_Witness ==
    /\ Rediscovery("discover_dock_widgets", "napari_experimental_provide_dock_widget")
    /\ Len(hooks["napari_experimental_provide_dock_widget"]) = 2
    /\ Len(dock_widgets) = 2
    /\ function_widgets # <<>>

(* C12: the record call_order() returns has a key for a hook spec exactly  *)
(* when the spec is first-result and more than one plugin implements it,   *)
(* enabled or not; the list of such a spec has one {plugin, enabled}       *)
(* record for each implementation and names no plugin twice.               *)
Implementers(spec_name) ==
    {p \in ManagerPlugins : Contains(PluginNames(hooks[spec_name]), p)}

C12_CallOrderKeys ==
    Returned("round_trip") =>
        LET order == result.ret
        IN /\ DOMAIN order \subseteq HookSpecs
           /\ \A spec_name \in HookSpecs :
                 spec_name \in DOMAIN order <=>
                     (spec_name \in FirstResultSpecs
                          /\ Cardinality(Implementers(spec_name)) > 1)
           /\ \A spec_name \in DOMAIN order :
                 /\ Len(order[spec_name]) = Cardinality(Implementers(spec_name))
                 /\ Injective(PluginNames(order[spec_name]))
                 /\ \A i \in 1..Len(hooks[spec_name]) :
                       Contains(order[spec_name],
                                [plugin |-> hooks[spec_name][i].plugin,
                                 enabled |-> hooks[spec_name][i].enabled])

\* two plugins implement the collect-all sample-data spec and two the
\* first-result reader spec, one of them disabled: only the reader has a key
C12_Witness ==
    /\ Returned("round_trip")
    /\ Len(hooks["napari_provide_sample_data"]) = 2
    /\ Len(ReaderImpls) = 2
    /\ \E i \in 1..2 : ~ReaderImpls[i].enabled
    /\ DOMAIN result.ret = {"napari_get_reader"}

(* C13: set_call_order leaves a hook spec as it was, the order of its      *)
(* implementations and the enabled flag of each, when the record has no    *)
(* list for the spec or the list names no plugin that implements it.       *)
C13_NoOpWithoutInstalled ==
    Returned("set_call_order") =>
        \A spec_name \in HookSpecs :
            InstalledEntries(spec_name) = <<>> =>
                hooks[spec_name] = before.hooks[spec_name]

\* the record disables one plugin, for the reader spec, that has no reader;
\* the reader spec and the sample-data spec have two implementations each
C13_Witness ==
    /\ Returned("set_call_order")
    /\ Len(RecordOf("napari_get_reader")) = 1
    /\ ~RecordOf("napari_get_reader")[1].enabled
    /\ InstalledEntries("napari_get_reader") = <<>>
    /\ RecordOf("napari_get_reader")[1].plugin \in Registered(hooks)
    /\ Len(ReaderImpls) = 2
    /\ Len(hooks["napari_provide_sample_data"]) = 2

(* C14: when the record's list for a spec names some, not all, of the      *)
(* plugins that implement it, the named ones are dispatched first, in the  *)
(* order of the list; the others follow in the order they had, each with   *)
(* the enabled flag it had; the spec has the implementations it had.       *)
C14_PartialRecord ==
    Returned("set_call_order") =>
        \A spec_name \in HookSpecs :
            LET entries == InstalledEntries(spec_name)
                named == SeqRange(PluginNames(entries))
                earlier == DispatchOrder(before.hooks[spec_name])
                after == DispatchOrder(hooks[spec_name])
            IN (entries # <<>> /\ Len(entries) < Len(earlier)) =>
                  /\ Len(after) = Len(earlier)
                  /\ SubSeq(PluginNames(after), 1, Len(entries)) = PluginNames(entries)
                  /\ SubSeq(after, Len(entries) + 1, Len(after)) =
                         SelectSeq(earlier, LAMBDA imp : imp.plugin \notin named)

\* two of three readers are named, against the order they had; the third,
\* disabled by an earlier record and dispatched first, is now last
C14_Witness ==
    /\ Returned("set_call_order")
    /\ Len(InstalledEntries("napari_get_reader")) = 2
    /\ Len(ReaderImpls) = 3
    /\ LET earlier == DispatchOrder(before.hooks["napari_get_reader"])
           after == DispatchOrder(ReaderImpls)
       IN /\ ~earlier[1].enabled
          /\ after[3] = earlier[1]
          /\ after[1].plugin = earlier[3].plugin
          /\ after[2].plugin = earlier[2].plugin

(* C15: the result of one implementation goes to a registry's callback at  *)
(* most once.  A plugin is registered once and its implementation is fed   *)
(* either by the first discovery after it or by its own registration, so   *)
(* this says: no operation feeds the implementation of one plugin for one  *)
(* spec twice, also not a registration that follows several discovery      *)
(* calls, and a discovery call after the first feeds nothing.              *)
C15_ProcessedOnce ==
    /\ pc = "returned" => Injective(result.calls)
    /\ Rediscovery("discover_dock_widgets", "napari_experimental_provide_dock_widget") =>
          result.calls = <<>>
    /\ Rediscovery("discover_sample_data", "napari_provide_sample_data") =>
          result.calls = <<>>

(* C16: a dock-widget item is stored only if it is a callable, or a tuple  *)
(* of one or two elements, the first a callable and the second, if any, a  *)
(* dict; any other item raises nothing, is warned about and stores         *)
(* nothing.                                                                *)
C16_DockContract ==
    Returned("register_dock_widget") =>
        LET earlier == PluginDict(before.dock, call.plugin)
            now == PluginDict(dock_widgets, call.plugin)
        IN /\ (\A i \in 1..Len(Items) : ~WellFormedDock(Items[i])) =>
                  /\ result.exc = "none"
                  /\ Len(result.warnings) = Len(Items)
                  /\ dock_widgets = before.dock
           /\ \A k \in 1..Len(now) :
                 (~DictHas(earlier, now[k].k) \/ DictGet(earlier, now[k].k) # now[k].v) =>
                     \E i \in 1..Len(Items) :
                        /\ WellFormedDock(Items[i])
                        /\ Nameable(Items[i])
                        /\ DockName(Items[i]) = now[k].k
                        /\ DockWidget(Items[i]) = now[k].v

(* C17: the items of one raw result are processed independently.  For a    *)
(* list of dock-widget or function-widget items, or a sample-data dict,    *)
(* with valid and invalid items in any positions, nothing is raised, every *)
(* valid item is stored under its name, and the registry is what the valid *)
(* items alone would have made it.                                         *)
ValidFunction(item) == item.t = "function"
ValidEntry(e) == ValidSample(e.v)

C17_ItemsIndependent ==
    /\ Returned("register_dock_widget") =>
          /\ result.exc = "none"
          /\ \A i \in 1..Len(Items) :
                (WellFormedDock(Items[i]) /\ Nameable(Items[i])) =>
                    DictHas(PluginDict(dock_widgets, call.plugin), DockName(Items[i]))
          /\ dock_widgets =
                 register_dock_widget(PyList(SelectSeq(Items, WellFormedDock)),
                                      call.plugin, before.dock).reg
    /\ Returned("register_function_widget") =>
          /\ result.exc = "none"
          /\ \A i \in 1..Len(Items) :
                ValidFunction(Items[i]) =>
                    DictHas(PluginDict(function_widgets, call.plugin),
                            FunctionName(Items[i]))
          /\ function_widgets =
                 register_function_widget(PyList(SelectSeq(Items, ValidFunction)),
                                          call.plugin, before.func).reg
    /\ (Returned("register_sample_data") /\ call.arg.t = "dict") =>
          /\ result.exc = "none"
          /\ \A i \in 1..Len(SampleEntries) :
                ValidEntry(SampleEntries[i]) =>
                    DictHas(PluginDict(_sample_data, call.plugin), SampleEntries[i].k)
          /\ _sample_data =
                 register_sample_data(PyDict(SelectSeq(SampleEntries, ValidEntry)),
                                      call.plugin, before.sample).reg

(* C18: set_call_order removes no implementation.  Each installed plugin   *)
(* the record names is then at the position the record gave it with the    *)
(* record's enabled flag, be it false or, for an implementation disabled   *)
(* before, true again; call_order() then lists every implementation of a   *)
(* first-result spec with several, the disabled ones with enabled false.   *)
C18_DisabledStays ==
    Returned("set_call_order") =>
        \A spec_name \in HookSpecs :
            LET entries == InstalledEntries(spec_name)
                after == DispatchOrder(hooks[spec_name])
            IN /\ Len(after) = Len(before.hooks[spec_name])
               /\ \A i \in 1..Len(entries) :
                     /\ after[i].plugin = entries[i].plugin
                     /\ after[i].enabled = entries[i].enabled
               /\ (spec_name \in FirstResultSpecs /\ Len(after) > 1) =>
                     /\ spec_name \in DOMAIN call_order(hooks)
                     /\ Len(call_order(hooks)[spec_name]) = Len(after)
                     /\ \A i \in 1..Len(after) :
                           call_order(hooks)[spec_name][i] =
                               [plugin |-> after[i].plugin, enabled |-> after[i].enabled]

\* a reader disabled by an earlier record is enabled again while another
\* reader stays disabled
C18_Witness ==
    /\ Returned("set_call_order")
    /\ Len(InstalledEntries("napari_get_reader")) = 1
    /\ InstalledEntries("napari_get_reader")[1].enabled
    /\ LET p == InstalledEntries("napari_get_reader")[1].plugin
           earlier == before.hooks["napari_get_reader"]
       IN /\ ~earlier[get_plugin_implementation(earlier, p)].enabled
          /\ ReaderImpls[get_plugin_implementation(ReaderImpls, p)].enabled
    /\ \E i \in 1..Len(ReaderImpls) : ~ReaderImpls[i].enabled

(* C19: whatever raw results the three callbacks were given, every entry   *)
(* of dock_widgets is a pair of a callable and a dict, every entry of      *)
(* function_widgets is a plain function, and every entry of _sample_data   *)
(* is a dict with 'data', a callable or a str or Path, and 'display_name'. *)
EntriesOf(reg) ==
    UNION {{reg[i].v[j].v : j \in 1..Len(reg[i].v)} : i \in 1..Len(reg)}
DockEntry(e) ==
    /\ e.t = "tuple"
    /\ Len(e.items) = 2
    /\ callable(e.items[1])
    /\ e.items[2].t = "dict"
SampleEntry(e) ==
    /\ e.t = "dict"
    /\ DictHas(e.d, "data")
    /\ DictHas(e.d, "display_name")
    /\ IsLocatorOrCallable(DictGet(e.d, "data"))

C19_WellFormedRegistries ==
    /\ \A e \in EntriesOf(dock_widgets) : DockEntry(e)
    /\ \A e \in EntriesOf(function_widgets) : e.t = "function"
    /\ \A e \in EntriesOf(_sample_data) : SampleEntry(e)

\* a dict with a valid entry and one whose data is neither callable nor a
\* locator, given by a plugin that already has a sample
C19_Witness ==
    /\ Returned("register_sample_data")
    /\ Len(SampleEntries) = 2
    /\ SampleEntries[1].v = PyInt(5)
    /\ SampleEntries[2].v = FullSample
    /\ PluginDict(before.sample, call.plugin) # <<>>
    /\ Len(PluginDict(_sample_data, call.plugin)) = 2

(* C20: a raw result whose items all fail validation leaves the registry   *)
(* as it was, plugin keys included; in each of the three registries every  *)
(* plugin key maps to a non-empty mapping.                                 *)
NoEmptyPlugin(reg) == \A i \in 1..Len(reg) : reg[i].v # <<>>

C20_NoEmptyPluginKey ==
    /\ NoEmptyPlugin(dock_widgets)
    /\ NoEmptyPlugin(function_widgets)
    /\ NoEmptyPlugin(_sample_data)
    /\ (Returned("register_dock_widget")
            /\ \A i \in 1..Len(Items) : ~WellFormedDock(Items[i])) =>
          dock_widgets = before.dock
    /\ (Returned("register_function_widget")
            /\ \A i \in 1..Len(Items) : ~ValidFunction(Items[i])) =>
          function_widgets = before.func
    /\ (Returned("register_sample_data")
            /\ \A i \in 1..Len(SampleEntries) : ~ValidEntry(SampleEntries[i])) =>
          _sample_data = before.sample

====
